---- MODULE Spec2Model ----
(***************************************************************************)
(* A model of the Teamleader API client (teamleader/api.py).               *)
(*                                                                         *)
(* The client is synchronous and used one call at a time: the model has    *)
(* one caller that is either idle, iterating a generator returned by one   *)
(* of the list methods, or holding the outcome of the call that just       *)
(* ended.  The remote server is the environment: every HTTP response       *)
(* (status code and body) is an input drawn from a small set.              *)
(*                                                                         *)
(* Python values are pairs <<type, text>> of strings, so that values of    *)
(* different Python types can be stored side by side and compared.  A      *)
(* list or dict value carries its literal text; ListOf and DictOf give     *)
(* its contents.  The code is Python 2 code (tests/conftest.py imports     *)
(* ConfigParser): dict.keys() is a list, so _clean_input_to_dict may       *)
(* delete entries while it walks the keys.                                 *)
(***************************************************************************)
EXTENDS Integers, Sequences, FiniteSets, TLC

VARIABLES
    api_group,  \* the group the client was constructed with
    api_secret, \* the secret the client was constructed with
    group,      \* self.group
    secret,     \* self.secret
    pc,         \* "idle" | "iterating" | "done": where the caller is
    method,     \* name of the method of the current call ("" when idle)
    args,       \* the arguments of the current call: name -> value
    requests,   \* the HTTP POSTs issued by the current call, in order
    responses,  \* the HTTP responses received by the current call, in order
    outcome,    \* how the current call (or the last pull) ended
    returned,   \* what a direct call of a static helper returned
    gen         \* the frame of the running generator

vars == <<api_group, api_secret, group, secret, pc, method, args, requests, responses,
          outcome, returned, gen>>

----------------------------------------------------------------------------
(* Bounds of the model *)

\* the number of pages one iteration may fetch before the model stops it
MaxPages == 3

----------------------------------------------------------------------------
(* Python values *)

Val(t, s)  == <<t, s>>
TypeOf(v)  == v[1]
TextOf(v)  == v[2]

None       == Val("NoneType", "None")
PyTrue     == Val("bool", "True")
PyFalse    == Val("bool", "False")
PyInt(s)   == Val("int", s)
PyStr(s)   == Val("str", s)
PyList(s)  == Val("list", s)
PyDict(s)  == Val("dict", s)
PyDate(s)  == Val("date", s)

\* the contents of the list literals the model uses
ListOf(v) ==
    CASE TextOf(v) = "[]"          -> <<>>
      [] TextOf(v) = "['vip']"     -> <<PyStr("vip")>>
      [] TextOf(v) = "['a', 'b']"  -> <<PyStr("a"), PyStr("b")>>
      [] TextOf(v) = "[3, 4]"      -> <<PyInt("3"), PyInt("4")>>
      [] OTHER                     -> <<>>

\* bool(v): Python truthiness
Truthy(v) ==
    CASE TypeOf(v) = "NoneType" -> FALSE
      [] TypeOf(v) = "bool"     -> TextOf(v) = "True"
      [] TypeOf(v) = "int"      -> TextOf(v) # "0"
      [] TypeOf(v) = "str"      -> TextOf(v) # ""
      [] TypeOf(v) = "list"     -> TextOf(v) # "[]"
      [] TypeOf(v) = "dict"     -> TextOf(v) # "{}"
      [] OTHER                  -> TRUE

\* isinstance(v, t) for t in {list, dict}
IsInstance(v, t) == TypeOf(v) = t

\* mappings (Python dicts with string keys)
EmptyMap     == [k \in {} |-> None]
Put(d, k, v) == [x \in (DOMAIN d) \cup {k} |-> IF x = k THEN v ELSE d[x]]
Del(d, k)    == [x \in (DOMAIN d) \ {k} |-> d[x]]

----------------------------------------------------------------------------
(* HTTP responses and call outcomes *)

\* a response body: a JSON object (with or without a 'reason' member), a
\* JSON array of records, or text that is no JSON
Body(kind, hasReason, reason, items) ==
    [kind |-> kind, hasReason |-> hasReason, reason |-> reason, items |-> items]

NoBody     == Body("none", FALSE, "", <<>>)
Response(status, body) == [status |-> status, body |-> body]
NoResponse == Response(0, NoBody)

\* r.json(): the decoded body; a JSON object becomes a dict, an array a list
Json(body) ==
    [type      |-> IF body.kind = "object" THEN "dict"
                   ELSE IF body.kind = "array" THEN "list" ELSE "none",
     hasReason |-> body.hasReason,
     reason    |-> body.reason,
     items     |-> body.items]

\* the value None, as the value of a call
NoValue == [type |-> "NoneType", hasReason |-> FALSE, reason |-> "", items |-> <<>>]

Raise(exc, message, api_response) ==
    [kind |-> "raise", exc |-> exc, message |-> message,
     api_response |-> api_response, value |-> NoValue]

Return(value) ==
    [kind |-> "return", exc |-> "", message |-> "",
     api_response |-> NoResponse, value |-> value]

NoOutcome ==
    [kind |-> "none", exc |-> "", message |-> "",
     api_response |-> NoResponse, value |-> NoValue]

\* TeamleaderAPIError.__init__(message, api_response)
TeamleaderAPIError(exc, message, api_response) == Raise(exc, message, api_response)

\* InvalidInputError(message)
InvalidInputError(message) == Raise("InvalidInputError", message, NoResponse)

\* the five classified errors
Classified ==
    {"InvalidInputError", "TeamleaderUnauthorizedError",
     "TeamleaderRateLimitExceededError", "TeamleaderBadRequestError",
     "TeamleaderUnknownAPIError"}

\* what a call has done: its outcome, the requests it sent, the responses it got
Result(out, reqs, resps) == [out |-> out, reqs |-> reqs, resps |-> resps]
Local(out) == Result(out, <<>>, <<>>)

----------------------------------------------------------------------------
(* The transport: Teamleader._request *)

\* requests.codes.unauthorized, the rate-limit status, requests.codes.bad_request,
\* requests.codes.ok
unauthorized == 401
rate_limit   == 505
bad_request  == 400
ok           == 200

\* statuses and bodies the server may answer with
Statuses == {ok, bad_request, unauthorized, rate_limit, 404, 500}

Bodies ==
    {Body("object", TRUE, "bad creds", <<>>),
     Body("object", TRUE, "slow down", <<7>>),
     Body("object", FALSE, "", <<>>),
     Body("object", FALSE, "", <<7>>),
     Body("array", FALSE, "", <<>>),
     Body("array", FALSE, "", <<1, 2>>),
     Body("invalid", FALSE, "", <<>>)}

Responses == {Response(s, b) : s \in Statuses, b \in Bodies}

\* WithCredentials with the two attributes swapped
WithCredentialsSwapped(data) == Put(Put(data, "api_group", secret), "api_secret", group)

\* data['api_group'] = self.group; data['api_secret'] = self.secret
WithCredentials(data) == Put(Put(data, "api_group", group), "api_secret", secret)

\* requests.post(base_url.format(endpoint), data=data)
Post(endpoint, data) == [endpoint |-> endpoint, data |-> data]

\* raise cls(message=response['reason'], api_response=r): the subscript fails
\* with KeyError on a dict without the key and with TypeError on a list
RaiseWithReason(exc, r) ==
    LET response == Json(r.body) IN
    IF response.type = "dict" /\ response.hasReason
    THEN TeamleaderAPIError(exc, response.reason, r)
    ELSE IF response.type = "dict"
    THEN Raise("KeyError", "reason", NoResponse)
    ELSE Raise("TypeError", "list indices must be integers", NoResponse)

\* Classify without the branch for the rate-limit status
ClassifyNoRateLimit(r) ==
    IF r.body.kind = "invalid"
    THEN Raise("ValueError", "No JSON object could be decoded", NoResponse)
    ELSE IF r.status = unauthorized
    THEN RaiseWithReason("TeamleaderUnauthorizedError", r)
    ELSE IF r.status = bad_request
    THEN RaiseWithReason("TeamleaderBadRequestError", r)
    ELSE IF r.status = ok
    THEN Return(Json(r.body))
    ELSE RaiseWithReason("TeamleaderUnknownAPIError", r)

\* the classification of the response r, after r.json() has been taken
Classify(r) ==
    IF r.body.kind = "invalid"
    THEN Raise("ValueError", "No JSON object could be decoded", NoResponse)
    ELSE IF r.status = unauthorized
    THEN RaiseWithReason("TeamleaderUnauthorizedError", r)
    ELSE IF r.status = rate_limit
    THEN RaiseWithReason("TeamleaderRateLimitExceededError", r)
    ELSE IF r.status = bad_request
    THEN RaiseWithReason("TeamleaderBadRequestError", r)
    ELSE IF r.status = ok
    THEN Return(Json(r.body))
    ELSE RaiseWithReason("TeamleaderUnknownAPIError", r)

\* Attempts with a second attempt when the server answers with the rate-limit status
AttemptsRetry(endpoint, data, r) ==
    IF r.status = rate_limit
    THEN <<Post(endpoint, WithCredentials(data)), Post(endpoint, WithCredentials(data))>>
    ELSE <<Post(endpoint, WithCredentials(data))>>

\* the POSTs one _request call makes when the server answers r
Attempts(endpoint, data, r) == <<Post(endpoint, WithCredentials(data))>>

\* _request(endpoint, data) when the server answers r; a data of None is {}
_request(endpoint, data, r) ==
    Result(Classify(r), Attempts(endpoint, data, r), <<r>>)

----------------------------------------------------------------------------
(* The static helpers *)

\* the result of _validate_type: raised, or the value returned and whether
\* that value is the argument object itself
Validated(raised, value, is_arg) == [raised |-> raised, value |-> value, is_arg |-> is_arg]


\* _validate_type(arg, t)
_validate_type(arg, t) ==
    IF Truthy(arg) /\ ~IsInstance(arg, t)
    THEN Validated(TRUE, None, FALSE)
    ELSE IF Truthy(arg)
    THEN Validated(FALSE, arg, TRUE)
    ELSE Validated(FALSE, IF t = "list" THEN PyList("[]") ELSE PyDict("{}"), FALSE)

\* int(b) of a bool
IntOfBool(v) == PyInt(IF TextOf(v) = "True" THEN "1" ELSE "0")

\* the value _clean_input_to_dict leaves under a key it keeps
Cleaned(v) == IF TypeOf(v) = "bool" THEN IntOfBool(v) ELSE v

\* _clean_input_to_dict testing `not data[key]` instead of `data[key] is None`
CleanDropsFalsy(data) ==
    [k \in {x \in DOMAIN data : Truthy(data[x])} |-> Cleaned(data[k])]

\* _clean_input_to_dict(data)
_clean_input_to_dict(data) ==
    [k \in {x \in DOMAIN data : data[x] # None} |-> Cleaned(data[k])]

\* the items of the dict literals the model uses, as <<key, value>> pairs
ItemsOf(v) ==
    CASE TextOf(v) = "{}"         -> <<>>
      [] TextOf(v) = "{7: 'a'}"   -> << <<PyInt("7"), PyStr("a")>> >>
      [] TextOf(v) = "{'key': 'value', 'foo': 'bar'}"
                                  -> << <<PyStr("key"), PyStr("value")>>,
                                        <<PyStr("foo"), PyStr("bar")>> >>
      [] TextOf(v) = "{7: 'a', '7': 'b'}"
                                  -> << <<PyInt("7"), PyStr("a")>>,
                                        <<PyStr("7"), PyStr("b")>> >>
      [] OTHER                    -> <<>>

\* the orders in which dict.items() may present the items of a dict (the
\* order of a Python 2 dict is not specified)
OrdersOf(v) ==
    LET n == Len(ItemsOf(v))
        permutations == {p \in [1..n -> 1..n] : \A i, j \in 1..n : i # j => p[i] # p[j]}
    IN  {[i \in 1..n |-> ItemsOf(v)[p[i]]] : p \in permutations}

\* str(x)
str(v) == TextOf(v)

\* the name of the sibling field of a custom field
CustomFieldName(custom_field_id) == "custom_field_" \o str(custom_field_id)

\* for custom_field_id, custom_field_value in items:
\*     data['custom_field_' + str(custom_field_id)] = custom_field_value
RECURSIVE SetCustomFields(_, _)
SetCustomFields(data, items) ==
    IF items = <<>> THEN data
    ELSE SetCustomFields(Put(data, CustomFieldName(Head(items)[1]), Head(items)[2]),
                         Tail(items))

\* the result of a step that changes the payload: the exception it raised
\* ("" when none) and the payload after it
Step(exc, data) == [exc |-> exc, data |-> data]

\* _convert_custom_fields reading data['custom_fields'] instead of popping it
ConvertKeepsKey(data, items) ==
    IF "custom_fields" \notin DOMAIN data
    THEN Step("KeyError", data)
    ELSE IF TypeOf(data["custom_fields"]) # "dict"
    THEN Step("AttributeError", data)
    ELSE Step("", SetCustomFields(data, items))

\* _convert_custom_fields(data), the dict found under 'custom_fields'
\* presenting its items in the order `items`
_convert_custom_fields(data, items) ==
    IF "custom_fields" \notin DOMAIN data
    THEN Step("KeyError", data)
    ELSE IF TypeOf(data["custom_fields"]) # "dict"
    THEN Step("AttributeError", Del(data, "custom_fields"))
    ELSE Step("", SetCustomFields(Del(data, "custom_fields"), items))

\* the orders of the items of the dict under 'custom_fields', if there is one
CustomFieldOrders(a) ==
    IF "custom_fields" \in DOMAIN a /\ TypeOf(a["custom_fields"]) = "dict"
    THEN OrdersOf(a["custom_fields"]) ELSE {<<>>}

\* ','.join(l)
RECURSIVE Join(_)
Join(l) ==
    IF l = <<>> THEN ""
    ELSE IF Len(l) = 1 THEN TextOf(Head(l))
    ELSE TextOf(Head(l)) \o "," \o Join(Tail(l))

\* whether ','.join(v) raises TypeError: v is no list or str, or holds a non-string
JoinFails(v) ==
    \/ TypeOf(v) \notin {"list", "str"}
    \/ TypeOf(v) = "list" /\ \E i \in 1..Len(ListOf(v)) : TypeOf(ListOf(v)[i]) # "str"

\* ','.join(v) as a value (the join of the empty string is the empty string)
Joined(v) == PyStr(IF TypeOf(v) = "list" THEN Join(ListOf(v)) ELSE "")

----------------------------------------------------------------------------
(* Conversions and reference tables used by the public methods *)

\* whether int(v) raises, and the exception it raises
IntError(v) ==
    CASE TypeOf(v) \in {"bool", "int"} -> ""
      [] TypeOf(v) = "str"             -> IF TextOf(v) \in {"0", "1"} THEN "" ELSE "ValueError"
      [] OTHER                         -> "TypeError"

\* int(v)
ToInt(v) == IF TypeOf(v) = "bool" THEN IntOfBool(v) ELSE PyInt(TextOf(v))

\* s.upper() and s.lower() on the codes the model uses
Upper(s) == CASE s = "be" -> "BE" [] s = "zz" -> "ZZ" [] s = "nl" -> "NL" [] OTHER -> s
Lower(s) == CASE s = "NL" -> "nl" [] s = "XX" -> "xx" [] s = "BE" -> "be" [] OTHER -> s

\* the alpha2 codes of pycountry.countries and the iso639_1 codes of
\* pycountry.languages (the part of the tables the model needs)
Countries == {"BE", "NL", "FR"}
Languages == {"nl", "en", "fr"}

\* try: pycountry.countries.get(alpha2=country.upper()) except: raise InvalidInputError
\* (a value without .upper() raises AttributeError inside the try)
CountryFails(country) ==
    country # None /\ (TypeOf(country) # "str" \/ Upper(TextOf(country)) \notin Countries)

LanguageFails(language) ==
    language # None /\ (TypeOf(language) # "str" \/ Lower(TextOf(language)) \notin Languages)

\* x is not None and type(x) != datetime.date
DateFails(d) == d # None /\ TypeOf(d) # "date"

\* time.mktime(d.timetuple())
Mktime(d) == Val("float", "mktime(" \o TextOf(d) \o ")")

\* d.strftime('%d/%m/%Y') on the dates the model uses
Strftime(d) ==
    PyStr(CASE TextOf(d) = "1990-01-31" -> "31/01/1990"
            [] TextOf(d) = "2015-02-01" -> "01/02/2015"
            [] OTHER                    -> "01/01/1970")

\* _valid_payment_terms with a term of 31 days
valid_payment_terms_31D ==
    {PyStr("0D"), PyStr("7D"), PyStr("10D"), PyStr("15D"), PyStr("21D"), PyStr("30D"),
     PyStr("31D"), PyStr("45D"), PyStr("60D"), PyStr("90D"), PyStr("30DEM"),
     PyStr("60DEM"), PyStr("90DEM")}

_valid_payment_terms ==
    {PyStr("0D"), PyStr("7D"), PyStr("10D"), PyStr("15D"), PyStr("21D"), PyStr("30D"),
     PyStr("45D"), PyStr("60D"), PyStr("90D"), PyStr("30DEM"), PyStr("60DEM"), PyStr("90DEM")}

valid_genders == {PyStr("M"), PyStr("F"), PyStr("U")}

valid_object_types ==
    {PyStr("crm_companies"), PyStr("crm_contacts"), PyStr("crm_todos"),
     PyStr("crm_callbacks"), PyStr("crm_meetings"), PyStr("inv_invoices"),
     PyStr("inv_creditnotes"), PyStr("pro_projects"), PyStr("sale_sales"),
     PyStr("ticket_tickets")}

valid_vat == {PyStr("00"), PyStr("06"), PyStr("12"), PyStr("21"), PyStr("CM"),
              PyStr("EX"), PyStr("MC"), PyStr("VCMD")}

\* a mapping with one, two, three or four entries
Map1(k, v)                 == Put(EmptyMap, k, v)
Map3(k, v, k2, v2, k3, v3) == Put(Put(Map1(k, v), k2, v2), k3, v3)
Map4(k, v, k2, v2, k3, v3, k4, v4) == Put(Map3(k, v, k2, v2, k3, v3), k4, v4)

----------------------------------------------------------------------------
(* The public methods that make one request *)

\* get_users(show_inactive_users=False)
get_users(a, r) ==
    IF IntError(a.show_inactive_users) # ""
    THEN Local(Raise(IntError(a.show_inactive_users), "int()", NoResponse))
    ELSE _request("getUsers", Map1("show_inactive_users", ToInt(a.show_inactive_users)), r)

\* get_departments()
get_departments(a, r) == _request("getDepartments", EmptyMap, r)

\* get_tags()
get_tags(a, r) == _request("getTags", EmptyMap, r)

\* get_segments checking object_type only after the request has been made
get_segments_late(a, r) ==
    LET res == _request("getSegments", Map1("object_type", a.object_type), r) IN
    IF a.object_type \notin valid_object_types
    THEN Result(InvalidInputError("Invalid contents of object_type."), res.reqs, res.resps)
    ELSE res

\* get_segments(object_type)
get_segments(a, r) ==
    IF a.object_type \notin valid_object_types
    THEN Local(InvalidInputError("Invalid contents of object_type."))
    ELSE _request("getSegments", Map1("object_type", a.object_type), r)

\* a method with no return statement returns None, whatever _request returned
Discard(res) ==
    IF res.out.kind = "return" THEN Result(Return(NoValue), res.reqs, res.resps) ELSE res

\* delete_contact(contact_id)
delete_contact(a, r) ==
    Discard(_request("deleteContact", Map1("contact_id", a.contact_id), r))

\* link_contact_company(contact_id, company_id, function=None)
link_contact_company(a, r) ==
    Discard(_request("linkContactToCompany",
                     Map4("contact_id", a.contact_id, "company_id", a.company_id,
                          "mode", PyStr("link"), "function", a.function), r))

\* unlink_contact_company(contact_id, company_id)
unlink_contact_company(a, r) ==
    Discard(_request("linkContactToCompany",
                     Map3("contact_id", a.contact_id, "company_id", a.company_id,
                          "mode", PyStr("unlink")), r))

\* get_contact(contact_id)
get_contact(a, r) == _request("getContact", Map1("contact_id", a.contact_id), r)

\* delete_company(company_id)
delete_company(a, r) ==
    Discard(_request("deleteCompany", Map1("company_id", a.company_id), r))

\* get_company(company_id)
get_company(a, r) == _request("getCompany", Map1("company_id", a.company_id), r)


\* [d['name'] for d in response]: iterating a dict gives its keys, which are
\* strings and cannot be subscripted by 'name'
Names(res) ==
    IF res.out.kind # "return" THEN res
    ELSE IF res.out.value.type = "dict"
            /\ (res.out.value.hasReason \/ res.out.value.items # <<>>)
    THEN Result(Raise("TypeError", "string indices must be integers", NoResponse),
                res.reqs, res.resps)
    ELSE Result(Return([type |-> "list", hasReason |-> FALSE, reason |-> "",
                        \* d['name'] of the record d is written 1000 + d
                        items |-> [i \in 1..Len(res.out.value.items) |->
                                      1000 + res.out.value.items[i]]]),
                res.reqs, res.resps)

\* get_business_types(country)
get_business_types(a, r) ==
    IF CountryFails(a.country)
    THEN Local(InvalidInputError("Invalid contents of argument country."))
    ELSE Names(_request("getBusinessTypes", Map1("country", a.country), r))

\* add_creditnote() ... get_creditnote(): methods whose body is `pass`
unimplemented(a) == Local(Return(NoValue))

----------------------------------------------------------------------------
(* The public methods that build their payload from locals() *)

\* Of the parameters that a method only passes through (optional strings and
\* ids such as salutation, gsm, website, zipcode, city, street, number,
\* description), the model keeps one per method; the code treats them alike.

\* locals() on entry of a method: the parameters and self
Locals(a) == Put(a, "self", Val("Teamleader", "self"))

\* the step t, run on the payload of s, unless s or an earlier step has raised
Then(s, t) == IF s.exc # "" THEN s ELSE t

\* data[field] = ','.join(data.pop(key))
PopJoin(data, key, field) ==
    IF key \notin DOMAIN data THEN Step("KeyError", data)
    ELSE IF JoinFails(data[key]) THEN Step("TypeError", Del(data, key))
    ELSE Step("", Put(Del(data, key), field, Joined(data[key])))

\* data['dob'] = time.mktime(data.pop('date_of_birth').timetuple())
PopDob(data, date_of_birth) ==
    IF date_of_birth = None THEN Step("", data)
    ELSE Step("", Put(Del(data, "date_of_birth"), "dob", Mktime(data["date_of_birth"])))

\* data[key] = int(v)
PutInt(data, key, v) ==
    IF IntError(v) # "" THEN Step(IntError(v), data) ELSE Step("", Put(data, key, ToInt(v)))

\* the request of a method whose payload steps ended in s, or the exception
\* that one of the steps raised
Send(endpoint, s, r) ==
    IF s.exc # "" THEN Local(Raise(s.exc, "", NoResponse))
    ELSE _request(endpoint, s.data, r)

\* add_contact(forename, surname, email, ..., custom_fields=None, ...)
add_contact(a, items, r) ==
    LET data == _clean_input_to_dict(Locals(a)) IN
    IF a.gender # None /\ a.gender \notin valid_genders
    THEN Local(InvalidInputError("Invalid contents of argument gender."))
    ELSE IF _validate_type(a.tags, "list").raised
    THEN Local(InvalidInputError("Invalid argument: tags"))
    ELSE IF _validate_type(a.custom_fields, "dict").raised
    THEN Local(InvalidInputError("Invalid argument: custom_fields"))
    ELSE IF CountryFails(a.country)
    THEN Local(InvalidInputError("Invalid contents of argument country."))
    ELSE IF LanguageFails(a.language)
    THEN Local(InvalidInputError("Invalid contents of argument language."))
    ELSE IF DateFails(a.date_of_birth)
    THEN Local(InvalidInputError("Invalid contents of argument date_of_birth."))
    ELSE
      LET s1 == PopJoin(data, "tags", "add_tag_by_string")
          s2 == Then(s1, _convert_custom_fields(s1.data, items))
          s3 == Then(s2, PopDob(s2.data, a.date_of_birth))
          s4 == Then(s3, IF a.newsletter = None THEN s3
                       ELSE PutInt(s3.data, "newsletter", a.newsletter))
          s5 == Then(s4, PutInt(s4.data, "automerge_by_name", a.automerge_by_name))
          s6 == Then(s5, PutInt(s5.data, "automerge_by_email", a.automerge_by_email))
      IN Send("addContact", s6, r)

\* update_contact(contact_id, track_changes=True, ..., linked_company_ids=None)
update_contact(a, items, r) ==
    LET data == _clean_input_to_dict(Locals(a)) IN
    IF a.gender # None /\ a.gender \notin valid_genders
    THEN Local(InvalidInputError("Invalid contents of argument gender."))
    ELSE IF _validate_type(a.tags, "list").raised
    THEN Local(InvalidInputError("Invalid argument: tags"))
    ELSE IF _validate_type(a.del_tags, "list").raised
    THEN Local(InvalidInputError("Invalid argument: del_tags"))
    ELSE IF _validate_type(a.custom_fields, "dict").raised
    THEN Local(InvalidInputError("Invalid argument: custom_fields"))
    ELSE IF CountryFails(a.country)
    THEN Local(InvalidInputError("Invalid contents of argument country."))
    ELSE IF LanguageFails(a.language)
    THEN Local(InvalidInputError("Invalid contents of argument language."))
    ELSE IF DateFails(a.date_of_birth)
    THEN Local(InvalidInputError("Invalid contents of argument date_of_birth."))
    ELSE
      LET s1 == PopJoin(data, "tags", "add_tag_by_string")
          s2 == Then(s1, PopJoin(s1.data, "del_tags", "remove_tag_by_string"))
          s3 == Then(s2, _convert_custom_fields(s2.data, items))
          s4 == Then(s3, PopDob(s3.data, a.date_of_birth))
      IN Discard(Send("updateContact", s4, r))

\* add_company(name, email=None, ..., custom_fields=None)
add_company(a, items, r) ==
    LET data == _clean_input_to_dict(Locals(a)) IN
    IF _validate_type(a.tags, "list").raised
    THEN Local(InvalidInputError("Invalid argument: tags"))
    ELSE IF _validate_type(a.custom_fields, "dict").raised
    THEN Local(InvalidInputError("Invalid argument: custom_fields"))
    ELSE IF CountryFails(a.country)
    THEN Local(InvalidInputError("Invalid contents of argument country."))
    ELSE IF LanguageFails(a.language)
    THEN Local(InvalidInputError("Invalid contents of argument language."))
    ELSE IF a.payment_term # None /\ a.payment_term \notin _valid_payment_terms
    THEN Local(InvalidInputError("Invalid contents of argument payment_term."))
    ELSE
      LET s1 == PopJoin(data, "tags", "add_tag_by_string")
          s2 == Then(s1, _convert_custom_fields(s1.data, items))
          s3 == Then(s2, PutInt(s2.data, "automerge_by_name", a.automerge_by_name))
          s4 == Then(s3, PutInt(s3.data, "automerge_by_email", a.automerge_by_email))
          s5 == Then(s4, PutInt(s4.data, "automerge_by_vat_code", a.automerge_by_vat_code))
      IN Send("addCompany", s5, r)

\* update_company(company_id, track_changes=True, ..., custom_fields=None)
update_company(a, items, r) ==
    LET data == _clean_input_to_dict(Locals(a)) IN
    IF _validate_type(a.tags, "list").raised
    THEN Local(InvalidInputError("Invalid argument: tags"))
    ELSE IF _validate_type(a.del_tags, "list").raised
    THEN Local(InvalidInputError("Invalid argument: del_tags"))
    ELSE IF _validate_type(a.custom_fields, "dict").raised
    THEN Local(InvalidInputError("Invalid argument: custom_fields"))
    ELSE IF CountryFails(a.country)
    THEN Local(InvalidInputError("Invalid contents of argument country."))
    ELSE IF LanguageFails(a.language)
    THEN Local(InvalidInputError("Invalid contents of argument language."))
    ELSE IF a.payment_term # None /\ a.payment_term \notin _valid_payment_terms
    THEN Local(InvalidInputError("Invalid contents of argument payment_term."))
    ELSE
      LET s1 == PopJoin(data, "tags", "add_tag_by_string")
          s2 == Then(s1, PopJoin(s1.data, "del_tags", "remove_tag_by_string"))
          s3 == Then(s2, _convert_custom_fields(s2.data, items))
      IN Discard(Send("updateCompany", s3, r))

----------------------------------------------------------------------------
(* add_invoice *)

\* the invoice lines the model uses
LineFull   == Map4("description", PyStr("work"), "amount", PyInt("2"),
                   "vat", PyStr("21"), "price", PyInt("50"))
LineSub    == Put(LineFull, "subtitle", PyStr("phase 1"))
LineNoVat  == Del(LineFull, "vat")
LineBadVat == Put(LineFull, "vat", PyStr("99"))

\* the contents of the invoice_lines literals the model uses
LinesOf(v) ==
    CASE TextOf(v) = "[full]"         -> <<LineFull>>
      [] TextOf(v) = "[sub]"          -> <<LineSub>>
      [] TextOf(v) = "[full, sub]"    -> <<LineFull, LineSub>>
      [] TextOf(v) = "[novat]"        -> <<LineNoVat>>
      [] TextOf(v) = "[full, badvat]" -> <<LineFull, LineBadVat>>
      [] OTHER                        -> <<>>

required_line_keys == {"description", "amount", "vat", "price"}

\* the message of the InvalidInputError the validation loop over the lines
\* raises ("" when it raises none)
RECURSIVE LinesError(_)
LinesError(lines) ==
    IF lines = <<>> THEN ""
    ELSE IF ~(required_line_keys \subseteq DOMAIN Head(lines))
    THEN "Fields description, amount, vat and price are required for each line."
    ELSE IF Head(lines)["vat"] \notin valid_vat
    THEN "Invalid contents of argument vat."
    ELSE LinesError(Tail(lines))

\* str(n) of a natural number
RECURSIVE NumStr(_)
NumStr(n) ==
    LET digit(d) == CASE d = 0 -> "0" [] d = 1 -> "1" [] d = 2 -> "2" [] d = 3 -> "3"
                      [] d = 4 -> "4" [] d = 5 -> "5" [] d = 6 -> "6" [] d = 7 -> "7"
                      [] d = 8 -> "8" [] OTHER -> "9"
    IN  IF n < 10 THEN digit(n) ELSE NumStr(n \div 10) \o digit(n % 10)

\* if key in data: data[key + '_' + str(i)] = line[key]
\* (the test is on the payload, not on the line)
PutOptional(data, line, key, i) ==
    IF key \in DOMAIN data
    THEN Put(data, key \o "_" \o NumStr(i),
             IF key \in DOMAIN line THEN line[key] ELSE Val("KeyError", key))
    ELSE data

\* the body of the loop that copies line number i into the payload
PutLine(data, line, i) ==
    LET d1 == Put(data, "description_" \o NumStr(i), line["description"])
        d2 == Put(d1, "price_" \o NumStr(i), line["price"])
        d3 == Put(d2, "amount_" \o NumStr(i), line["amount"])
        d4 == Put(d3, "vat_" \o NumStr(i), line["vat"])
        d5 == PutOptional(d4, line, "product_id", i)
        d6 == PutOptional(d5, line, "account", i)
    IN PutOptional(d6, line, "subtitle", i)

\* i = 1; for line in invoice_lines: ...; i += 1
RECURSIVE PutLines(_, _, _)
PutLines(data, lines, i) ==
    IF lines = <<>> THEN data
    ELSE PutLines(PutLine(data, Head(lines), i), Tail(lines), i + 1)

\* PutTarget reading the id instead of popping it
PutTargetKeepsId(data, contact_id) ==
    IF contact_id # None
    THEN Put(Put(data, "contact_or_company", PyStr("contact")),
             "contact_or_company_id", data["contact_id"])
    ELSE Put(Put(data, "contact_or_company", PyStr("company")),
             "contact_or_company_id", data["company_id"])

\* data['contact_or_company'] = ...; data['contact_or_company_id'] = data.pop(...)
PutTarget(data, contact_id) ==
    IF contact_id # None
    THEN Put(Put(Del(data, "contact_id"), "contact_or_company", PyStr("contact")),
             "contact_or_company_id", data["contact_id"])
    ELSE Put(Put(Del(data, "company_id"), "contact_or_company", PyStr("company")),
             "contact_or_company_id", data["company_id"])

\* del(data['invoice_lines'])
DelLines(data) ==
    IF "invoice_lines" \notin DOMAIN data THEN Step("KeyError", data)
    ELSE Step("", Del(data, "invoice_lines"))

\* data['date'] = data.pop('date').strftime('%d/%m/%Y')
PutDate(data, date) ==
    IF date = None THEN Step("", data)
    ELSE Step("", Put(data, "date", Strftime(data["date"])))

\* add_invoice(sys_department_id, contact_id=None, company_id=None, ...)
add_invoice(a, items, r) ==
    LET data  == _clean_input_to_dict(Locals(a))
        lines == _validate_type(a.invoice_lines, "list")
    IN
    IF a.contact_id = None /\ a.company_id = None
    THEN Local(InvalidInputError("One of contact_id or company_id is required."))
    ELSE IF a.contact_id # None /\ a.company_id # None
    THEN Local(InvalidInputError("Only one of contact_id or company_id is can be set."))
    ELSE IF a.payment_term # None /\ a.payment_term \notin _valid_payment_terms
    THEN Local(InvalidInputError("Invalid contents of argument payment_term."))
    ELSE IF lines.raised
    THEN Local(InvalidInputError("Invalid argument: invoice_lines"))
    ELSE IF LinesError(LinesOf(lines.value)) # ""
    THEN Local(InvalidInputError(LinesError(LinesOf(lines.value))))
    ELSE IF DateFails(a.date)
    THEN Local(InvalidInputError("Invalid contents of argument date."))
    ELSE IF _validate_type(a.custom_fields, "dict").raised
    THEN Local(InvalidInputError("Invalid argument: custom_fields"))
    ELSE
      LET s1 == _convert_custom_fields(data, items)
          s2 == Then(s1, Step("", PutTarget(s1.data, a.contact_id)))
          s3 == Then(s2, Step("", PutLines(s2.data, LinesOf(lines.value), 1)))
          s4 == Then(s3, DelLines(s3.data))
          s5 == Then(s4, PutDate(s4.data, a.date))
      IN Send("addInvoice", s5, r)

----------------------------------------------------------------------------
(* The generators: get_contacts, get_companies, get_contacts_by_company *)

\* the page size
amount == 100

\* the frame of a generator: its locals, and the items it has yielded so far
NewFrame(endpoint) ==
    [endpoint |-> endpoint, started |-> FALSE, data |-> EmptyMap,
     there_are_more_pages |-> TRUE, pageno |-> 0, page |-> <<>>, pos |-> 0,
     produced |-> <<>>]

NoFrame == NewFrame("")

\* what one next() on a generator has done: the frame after it, how it ended
\* ("yield", "stop" or "raise"), the requests sent and the responses received
Resumed(frame, out, reqs, resps) ==
    [frame |-> frame, out |-> out, reqs |-> reqs, resps |-> resps]

Yielded == [NoOutcome EXCEPT !.kind = "yield"]
Stopped == [NoOutcome EXCEPT !.kind = "stop"]


\* the filter fields of get_contacts / get_companies
Filters(a) ==
    LET d1 == IF a.query # None THEN Map1("searchby", a.query) ELSE EmptyMap
        d2 == IF a.modified_since # None THEN Put(d1, "modifiedsince", a.modified_since) ELSE d1
        d3 == IF a.filter_by_tag # None THEN Put(d2, "filter_by_tag", a.filter_by_tag) ELSE d2
        d4 == IF a.segment_id # None THEN Put(d3, "segment_id", a.segment_id) ELSE d3
        selected_customfields == _validate_type(a.selected_customfields, "list").value
    IN IF Truthy(selected_customfields)
       THEN Put(d4, "selected_customfields",
                \* ','.join([str(x) for x in selected_customfields])
                PyStr(Join([i \in 1..Len(ListOf(selected_customfields)) |->
                               PyStr(str(ListOf(selected_customfields)[i]))])))
       ELSE d4

\* page_data = {'amount': amount, 'pageno': pageno}; page_data.update(data)
PageData(g) ==
    [k \in {"amount", "pageno"} \cup DOMAIN g.data |->
        IF k \in DOMAIN g.data THEN g.data[k]
        ELSE IF k = "amount" THEN PyInt(NumStr(amount)) ELSE PyInt(NumStr(g.pageno))]

\* YieldNext walking the page from its end
YieldNextReversed(g, reqs, resps) ==
    Resumed([g EXCEPT !.pos = @ + 1, !.produced = Append(@, g.page[Len(g.page) - g.pos])],
            Yielded, reqs, resps)

\* yield the next item of the page in the frame
YieldNext(g, reqs, resps) ==
    Resumed([g EXCEPT !.pos = @ + 1, !.produced = Append(@, g.page[g.pos + 1])],
            Yielded, reqs, resps)

\* MorePages going on after any page that is not empty
MorePagesNonEmpty(contacts) == Len(contacts) > 0

\* there_are_more_pages = (len(contacts) == amount)
MorePages(contacts) == Len(contacts) = amount

\* FetchPage asking for the page a second time when the fetch has failed
FetchPageRetry(g, r) ==
    LET res      == _request(g.endpoint, PageData(g), r)
        contacts == res.out.value.items
        g1       == [g EXCEPT !.page = contacts, !.pos = 0,
                              !.there_are_more_pages = MorePages(contacts)]
    IN IF res.out.kind = "raise"
       THEN Resumed(g, res.out, res.reqs \o res.reqs, res.resps \o res.resps)
       ELSE IF contacts # <<>> THEN YieldNext(g1, res.reqs, res.resps)
       ELSE Resumed([g1 EXCEPT !.pageno = @ + 1], Stopped, res.reqs, res.resps)

\* one turn of the while loop from its top up to the first yield: the fetch
\* of page g.pageno answered by r
FetchPage(g, r) ==
    LET res      == _request(g.endpoint, PageData(g), r)
        contacts == res.out.value.items
        g1       == [g EXCEPT !.page = contacts, !.pos = 0,
                              !.there_are_more_pages = MorePages(contacts)]
    IN IF res.out.kind = "raise" THEN Resumed(g, res.out, res.reqs, res.resps)
       ELSE IF contacts # <<>> THEN YieldNext(g1, res.reqs, res.resps)
       ELSE Resumed([g1 EXCEPT !.pageno = @ + 1], Stopped, res.reqs, res.resps)

\* whether the next() that resumes frame g of a paginating generator fetches
FetchesNext(g) ==
    \/ ~g.started
    \/ g.pos = Len(g.page) /\ g.there_are_more_pages

\* ResumeList fetching the next page as soon as it yields the last record of
\* the page it holds
ResumeListEager(g, a, r) ==
    IF ~g.started
    THEN IF _validate_type(a.selected_customfields, "list").raised
         THEN Resumed(g, InvalidInputError("Invalid argument: selected_customfields"),
                      <<>>, <<>>)
         ELSE FetchPage([g EXCEPT !.started = TRUE, !.data = Filters(a)], r)
    ELSE IF g.pos + 1 = Len(g.page) /\ g.there_are_more_pages
    THEN LET res == _request(g.endpoint, PageData([g EXCEPT !.pageno = @ + 1]), r)
         IN Resumed(YieldNext(g, <<>>, <<>>).frame, Yielded, res.reqs, res.resps)
    ELSE IF g.pos < Len(g.page)
    THEN YieldNext(g, <<>>, <<>>)
    ELSE IF g.there_are_more_pages
    THEN FetchPage([g EXCEPT !.pageno = @ + 1], r)
    ELSE Resumed([g EXCEPT !.pageno = @ + 1], Stopped, <<>>, <<>>)

\* next() on the generator of get_contacts / get_companies
ResumeList(g, a, r) ==
    IF ~g.started
    THEN IF _validate_type(a.selected_customfields, "list").raised
         THEN Resumed(g, InvalidInputError("Invalid argument: selected_customfields"),
                      <<>>, <<>>)
         ELSE FetchPage([g EXCEPT !.started = TRUE, !.data = Filters(a)], r)
    ELSE IF g.pos < Len(g.page)
    THEN YieldNext(g, <<>>, <<>>)
    ELSE IF g.there_are_more_pages
    THEN FetchPage([g EXCEPT !.pageno = @ + 1], r)
    ELSE Resumed([g EXCEPT !.pageno = @ + 1], Stopped, <<>>, <<>>)

\* next() on the generator of get_contacts_by_company
ResumeByCompany(g, a, r) ==
    IF ~g.started
    THEN LET res      == _request(g.endpoint, Map1("company_id", a.company_id), r)
             contacts == res.out.value.items
             g1       == [g EXCEPT !.started = TRUE, !.page = contacts]
         IN IF res.out.kind = "raise" THEN Resumed(g, res.out, res.reqs, res.resps)
            ELSE IF contacts # <<>> THEN YieldNext(g1, res.reqs, res.resps)
            ELSE Resumed(g1, Stopped, res.reqs, res.resps)
    ELSE IF g.pos < Len(g.page)
    THEN YieldNext(g, <<>>, <<>>)
    ELSE Resumed(g, Stopped, <<>>, <<>>)

\* the sizes of the pages the server answers with, and the records of page k
PageSizes == {0, 37, amount}
Page(k, n) == [i \in 1..n |-> 1000 * k + i]

\* the answers of the server to the fetch of page k: a JSON list on success
\* (the list endpoints answer 200 with a list), or an error
ErrorResponses ==
    {Response(unauthorized, Body("object", TRUE, "bad creds", <<>>)),
     Response(rate_limit, Body("object", TRUE, "slow down", <<>>)),
     Response(500, Body("object", FALSE, "", <<>>))}

PageResponses(k) ==
    {Response(ok, Body("array", FALSE, "", Page(k, n))) : n \in PageSizes}
        \cup ErrorResponses

----------------------------------------------------------------------------
(* The arguments the caller passes *)

\* a base call and every call that differs from it in one argument
Inputs(base, dom) ==
    {base} \cup UNION {{[base EXCEPT ![k] = v] : v \in dom[k]} : k \in DOMAIN dom}

Tags         == {None, PyList("[]"), PyList("['a', 'b']"), PyStr("vip"), PyList("[3, 4]")}
CustomFields == {None, PyDict("{}"), PyDict("{7: 'a'}"), PyDict("{7: 'a', '7': 'b'}"),
                 PyStr("x"), PyStr("")}
CountryArgs  == {None, PyStr("be"), PyStr("zz"), PyInt("5")}
LanguageArgs == {None, PyStr("NL"), PyStr("XX")}
GenderArgs   == {None, PyStr("M"), PyStr("X")}
DateArgs     == {None, PyDate("1990-01-31"), PyStr("1990-01-31")}
TermArgs     == {None, PyStr("30D"), PyStr("31D")}
BoolArgs     == {PyTrue, PyFalse}

GetUsersInputs    == {[show_inactive_users |-> v] : v \in {PyFalse, PyTrue, None}}
GetSegmentsInputs == {[object_type |-> v] : v \in {PyStr("crm_contacts"), PyStr("bogus"), None}}
ContactIdInputs   == {[contact_id |-> PyInt("1")]}
CompanyIdInputs   == {[company_id |-> PyInt("2")]}
LinkInputs        == {[contact_id |-> PyInt("1"), company_id |-> PyInt("2"), function |-> f] :
                        f \in {None, PyStr("CEO")}}
UnlinkInputs      == {[contact_id |-> PyInt("1"), company_id |-> PyInt("2")]}
CountryInputs     == {[country |-> c] : c \in CountryArgs}

AddContactInputs ==
    LET min ==
            [forename |-> PyStr("Ann"), surname |-> PyStr("Lee"), email |-> PyStr("ann@x.be"),
             telephone |-> None, country |-> None, language |-> None, gender |-> None,
             date_of_birth |-> None, newsletter |-> None, tags |-> None,
             automerge_by_name |-> PyFalse, automerge_by_email |-> PyFalse, custom_fields |-> None]
        full ==
            [forename |-> PyStr("Ann"), surname |-> PyStr("Lee"), email |-> PyStr("ann@x.be"),
             telephone |-> PyStr("123"), country |-> PyStr("be"), language |-> PyStr("NL"),
             gender |-> PyStr("F"), date_of_birth |-> PyDate("1990-01-31"), newsletter |-> PyTrue,
             tags |-> PyList("['a', 'b']"), automerge_by_name |-> PyTrue,
             automerge_by_email |-> PyFalse, custom_fields |-> PyDict("{7: 'a'}")]
        dom ==
            [telephone |-> {None}, country |-> CountryArgs, language |-> LanguageArgs,
             gender |-> GenderArgs, date_of_birth |-> DateArgs, newsletter |-> {None, PyFalse},
             tags |-> Tags, automerge_by_email |-> BoolArgs, custom_fields |-> CustomFields]
    IN  Inputs(min, dom) \cup Inputs(full, dom)

UpdateContactInputs ==
    LET min ==
            [contact_id |-> PyInt("1"), track_changes |-> PyTrue, forename |-> None,
             country |-> None, language |-> None, gender |-> None, date_of_birth |-> None,
             tags |-> None, del_tags |-> None, custom_fields |-> None, linked_company_ids |-> None]
        full ==
            [contact_id |-> PyInt("1"), track_changes |-> PyFalse, forename |-> PyStr("Ann"),
             country |-> PyStr("be"), language |-> PyStr("NL"), gender |-> PyStr("F"),
             date_of_birth |-> PyDate("1990-01-31"), tags |-> PyList("['a', 'b']"),
             del_tags |-> PyList("['vip']"), custom_fields |-> PyDict("{7: 'a'}"),
             linked_company_ids |-> None]
        dom ==
            [track_changes |-> BoolArgs, country |-> CountryArgs, language |-> LanguageArgs,
             gender |-> GenderArgs, date_of_birth |-> DateArgs, tags |-> Tags, del_tags |-> Tags,
             custom_fields |-> CustomFields]
    IN  Inputs(min, dom) \cup Inputs(full, dom)

AddCompanyInputs ==
    LET min ==
            [name |-> PyStr("Acme"), vat_code |-> None, country |-> None, language |-> None,
             tags |-> None, payment_term |-> None, automerge_by_name |-> PyFalse,
             automerge_by_email |-> PyFalse, automerge_by_vat_code |-> PyFalse,
             custom_fields |-> None]
        full ==
            [name |-> PyStr("Acme"), vat_code |-> PyStr("BE0123"), country |-> PyStr("be"),
             language |-> PyStr("NL"), tags |-> PyList("['a', 'b']"), payment_term |-> PyStr("30D"),
             automerge_by_name |-> PyFalse, automerge_by_email |-> PyFalse,
             automerge_by_vat_code |-> PyTrue, custom_fields |-> PyDict("{7: 'a'}")]
        dom ==
            [vat_code |-> {None}, country |-> CountryArgs, language |-> LanguageArgs, tags |-> Tags,
             payment_term |-> TermArgs, automerge_by_name |-> BoolArgs, custom_fields |-> CustomFields]
    IN  Inputs(min, dom) \cup Inputs(full, dom)

UpdateCompanyInputs ==
    LET min ==
            [company_id |-> PyInt("2"), track_changes |-> PyTrue, name |-> None, country |-> None,
             language |-> None, payment_term |-> None, tags |-> None, del_tags |-> None,
             custom_fields |-> None]
        full ==
            [company_id |-> PyInt("2"), track_changes |-> PyTrue, name |-> PyStr("Acme"),
             country |-> PyStr("be"), language |-> PyStr("NL"), payment_term |-> PyStr("30D"),
             tags |-> PyList("['a', 'b']"), del_tags |-> PyList("[]"),
             custom_fields |-> PyDict("{}")]
        dom ==
            [track_changes |-> BoolArgs, country |-> CountryArgs, language |-> LanguageArgs,
             payment_term |-> TermArgs, tags |-> Tags, del_tags |-> Tags,
             custom_fields |-> CustomFields]
    IN  Inputs(min, dom) \cup Inputs(full, dom)

InvoiceLines ==
    {None, PyList("[]"), PyList("[full]"), PyList("[sub]"), PyList("[full, sub]"),
     PyList("[novat]"), PyList("[full, badvat]"), PyStr("lines")}

AddInvoiceInputs ==
    LET min ==
            [sys_department_id |-> PyInt("9"), contact_id |-> None, company_id |-> None,
             for_attention_of |-> None, payment_term |-> None, invoice_lines |-> None,
             draft_invoice |-> PyFalse, date |-> None, direct_debit |-> PyFalse,
             custom_fields |-> None]
        contact ==
            [sys_department_id |-> PyInt("9"), contact_id |-> PyInt("1"), company_id |-> None,
             for_attention_of |-> PyStr("Ann"), payment_term |-> PyStr("30D"),
             invoice_lines |-> PyList("[full, sub]"), draft_invoice |-> PyTrue,
             date |-> PyDate("2015-02-01"), direct_debit |-> PyFalse,
             custom_fields |-> PyDict("{7: 'a'}")]
        company ==
            [contact EXCEPT !.contact_id = None, !.company_id = PyInt("2"),
                                      !.custom_fields = PyDict("{}")]
        dom ==
            [contact_id |-> {None, PyInt("1")}, company_id |-> {None, PyInt("2")},
             payment_term |-> TermArgs, invoice_lines |-> InvoiceLines, draft_invoice |-> BoolArgs,
             date |-> {None, PyDate("2015-02-01"), PyStr("2015-02-01")},
             custom_fields |-> CustomFields]
    IN  Inputs(min, dom) \cup Inputs(contact, dom) \cup Inputs(company, dom)

ListInputs ==
    LET min ==
            [query |-> None, modified_since |-> None, filter_by_tag |-> None, segment_id |-> None,
             selected_customfields |-> None]
        dom ==
            [query |-> {PyStr("ann")}, segment_id |-> {PyInt("3")},
             selected_customfields |-> {PyList("[3, 4]"), PyStr("bad")}]
    IN  Inputs(min, dom)

\* the arguments of the direct calls of the static helpers
CleanInputs ==
    LET values == {None, PyTrue, PyFalse, PyInt("0"), PyStr("x")}
    IN  UNION {[K -> values] : K \in SUBSET {"forename", "newsletter", "tags"}}
ConvertInputs ==
    LET bases == {EmptyMap, Map1("key", PyStr("value")), Map1("custom_field_7", PyStr("old"))}
        dicts == {PyDict("{}"), PyDict("{7: 'a'}"), PyDict("{'key': 'value', 'foo': 'bar'}"),
                          PyDict("{7: 'a', '7': 'b'}")}
    IN  {Put(b, "custom_fields", c) : b \in bases, c \in dicts}
ValidateArgs  == {None, PyList("[]"), PyList("['a', 'b']"), PyDict("{}"), PyDict("{7: 'a'}"),
                  PyStr("not a list"), PyStr(""), PyInt("0"), PyInt("5")}

Unimplemented ==
    {"add_creditnote", "update_invoice_payment_status", "book_draft_invoice",
     "update_invoice", "update_invoice_comment", "delete_invoice", "get_invoices",
     "get_creditnotes", "get_invoice", "get_creditnote"}

ByCompanyResponses ==
    {Response(ok, Body("array", FALSE, "", <<>>)),
     Response(ok, Body("array", FALSE, "", <<1, 2>>))} \cup ErrorResponses

----------------------------------------------------------------------------
(* The state machine *)

\* Teamleader(api_group, api_secret)
Init ==
    /\ api_group \in {PyStr("g1"), PyStr("g2")}
    /\ api_secret \in {PyStr("s1"), PyStr("s2")}
    /\ group = api_group
    /\ secret = api_secret
    /\ returned = None
    /\ pc = "idle"
    /\ method = ""
    /\ args = EmptyMap
    /\ requests = <<>>
    /\ responses = <<>>
    /\ outcome = NoOutcome
    /\ gen = NoFrame

\* a call of method m with arguments a that runs to its end with result res
\* (the caller is idle: see the Call_ actions)
Invoke(m, a, res) ==
    /\ pc' = "done"
    /\ method' = m
    /\ args' = a
    /\ requests' = res.reqs
    /\ responses' = res.resps
    /\ outcome' = res.out
    /\ UNCHANGED <<api_group, api_secret, group, secret, returned, gen>>

\* a direct call of the static helper m with arguments a, which returned ret
Helper(m, a, ret) ==
    /\ pc' = "done"
    /\ method' = m
    /\ args' = a
    /\ returned' = ret
    /\ requests' = <<>>
    /\ responses' = <<>>
    /\ outcome' = NoOutcome
    /\ UNCHANGED <<api_group, api_secret, group, secret, gen>>

\* a call of a generator method: it returns the generator and runs no code
Start(m, a, endpoint) ==
    /\ pc' = "iterating"
    /\ method' = m
    /\ args' = a
    /\ requests' = <<>>
    /\ responses' = <<>>
    /\ outcome' = NoOutcome
    /\ gen' = NewFrame(endpoint)
    /\ UNCHANGED <<api_group, api_secret, group, secret, returned>>

\* next() has run the generator to its next yield, its end or an exception
Resume(n) ==
    /\ pc' = IF n.out.kind = "yield" THEN "iterating" ELSE "done"
    /\ gen' = n.frame
    /\ outcome' = n.out
    /\ requests' = requests \o n.reqs
    /\ responses' = responses \o n.resps
    /\ UNCHANGED <<api_group, api_secret, group, secret, method, args, returned>>

Call__validate_type ==
    /\ pc = "idle"
    /\ \E arg \in ValidateArgs, t \in {"list", "dict"} :
          Helper("_validate_type", [arg |-> arg, t |-> PyStr(t)], _validate_type(arg, t))
Call__convert_custom_fields ==
    /\ pc = "idle"
    /\ \E data \in ConvertInputs : \E items \in CustomFieldOrders(data) :
          Helper("_convert_custom_fields", [data |-> data, items |-> items],
                 _convert_custom_fields(data, items))
Call__clean_input_to_dict ==
    /\ pc = "idle"
    /\ \E data \in CleanInputs :
          Helper("_clean_input_to_dict", [data |-> data], _clean_input_to_dict(data))

Call_get_users ==
    /\ pc = "idle"
    /\ \E a \in GetUsersInputs, r \in Responses : Invoke("get_users", a, get_users(a, r))
Call_get_departments ==
    /\ pc = "idle"
    /\ \E r \in Responses : Invoke("get_departments", EmptyMap, get_departments(EmptyMap, r))
Call_get_tags ==
    /\ pc = "idle"
    /\ \E r \in Responses : Invoke("get_tags", EmptyMap, get_tags(EmptyMap, r))
Call_get_segments ==
    /\ pc = "idle"
    /\ \E a \in GetSegmentsInputs, r \in Responses : Invoke("get_segments", a, get_segments(a, r))
Call_delete_contact ==
    /\ pc = "idle"
    /\ \E a \in ContactIdInputs, r \in Responses : Invoke("delete_contact", a, delete_contact(a, r))
Call_link_contact_company ==
    /\ pc = "idle"
    /\ \E a \in LinkInputs, r \in Responses : Invoke("link_contact_company", a, link_contact_company(a, r))
Call_unlink_contact_company ==
    /\ pc = "idle"
    /\ \E a \in UnlinkInputs, r \in Responses : Invoke("unlink_contact_company", a, unlink_contact_company(a, r))
Call_get_contact ==
    /\ pc = "idle"
    /\ \E a \in ContactIdInputs, r \in Responses : Invoke("get_contact", a, get_contact(a, r))
Call_delete_company ==
    /\ pc = "idle"
    /\ \E a \in CompanyIdInputs, r \in Responses : Invoke("delete_company", a, delete_company(a, r))
Call_get_company ==
    /\ pc = "idle"
    /\ \E a \in CompanyIdInputs, r \in Responses : Invoke("get_company", a, get_company(a, r))
Call_get_business_types ==
    /\ pc = "idle"
    /\ \E a \in CountryInputs, r \in Responses : Invoke("get_business_types", a, get_business_types(a, r))
Call_unimplemented ==
    /\ pc = "idle"
    /\ \E m \in Unimplemented : Invoke(m, EmptyMap, unimplemented(EmptyMap))

Call_add_contact ==
    /\ pc = "idle"
    /\ \E a \in AddContactInputs, r \in Responses : \E items \in CustomFieldOrders(a) :
        Invoke("add_contact", a, add_contact(a, items, r))
Call_update_contact ==
    /\ pc = "idle"
    /\ \E a \in UpdateContactInputs, r \in Responses : \E items \in CustomFieldOrders(a) :
        Invoke("update_contact", a, update_contact(a, items, r))
Call_add_company ==
    /\ pc = "idle"
    /\ \E a \in AddCompanyInputs, r \in Responses : \E items \in CustomFieldOrders(a) :
        Invoke("add_company", a, add_company(a, items, r))
Call_update_company ==
    /\ pc = "idle"
    /\ \E a \in UpdateCompanyInputs, r \in Responses : \E items \in CustomFieldOrders(a) :
        Invoke("update_company", a, update_company(a, items, r))
Call_add_invoice ==
    /\ pc = "idle"
    /\ \E a \in AddInvoiceInputs, r \in Responses : \E items \in CustomFieldOrders(a) :
        Invoke("add_invoice", a, add_invoice(a, items, r))

Call_get_contacts ==
    /\ pc = "idle"
    /\ \E a \in ListInputs : Start("get_contacts", a, "getContacts")
Call_get_companies ==
    /\ pc = "idle"
    /\ \E a \in ListInputs : Start("get_companies", a, "getCompanies")
Call_get_contacts_by_company ==
    /\ pc = "idle"
    /\ \E a \in CompanyIdInputs : Start("get_contacts_by_company", a, "getContactsByCompany")

\* the index of the page the next fetch of frame g asks for
NextPage(g) == IF g.started THEN g.pageno + 1 ELSE 0

\* the consumer pulls the next record of get_contacts / get_companies
PullList ==
    /\ pc = "iterating"
    /\ method \in {"get_contacts", "get_companies"}
    /\ FetchesNext(gen) => NextPage(gen) < MaxPages
    /\ \E r \in (IF FetchesNext(gen) THEN PageResponses(NextPage(gen)) ELSE {NoResponse}) :
          Resume(ResumeList(gen, args, r))

\* the consumer pulls the next record of get_contacts_by_company
PullByCompany ==
    /\ pc = "iterating"
    /\ method = "get_contacts_by_company"
    /\ \E r \in (IF gen.started THEN {NoResponse} ELSE ByCompanyResponses) :
          Resume(ResumeByCompany(gen, args, r))

\* the caller has taken the outcome of the call
Finish ==
    /\ pc = "done"
    /\ pc' = "idle"
    /\ method' = ""
    /\ args' = EmptyMap
    /\ requests' = <<>>
    /\ responses' = <<>>
    /\ outcome' = NoOutcome
    /\ gen' = NoFrame
    /\ returned' = None
    /\ UNCHANGED <<api_group, api_secret, group, secret>>

\* the consumer drops a generator it has not exhausted
Abandon ==
    /\ pc = "iterating"
    /\ pc' = "idle"
    /\ method' = ""
    /\ args' = EmptyMap
    /\ requests' = <<>>
    /\ responses' = <<>>
    /\ outcome' = NoOutcome
    /\ gen' = NoFrame
    /\ returned' = None
    /\ UNCHANGED <<api_group, api_secret, group, secret>>

Next ==
    \/ Call__validate_type
    \/ Call__convert_custom_fields
    \/ Call__clean_input_to_dict
    \/ Call_get_users
    \/ Call_get_departments
    \/ Call_get_tags
    \/ Call_get_segments
    \/ Call_add_contact
    \/ Call_update_contact
    \/ Call_delete_contact
    \/ Call_link_contact_company
    \/ Call_unlink_contact_company
    \/ Call_get_contacts
    \/ Call_get_contact
    \/ Call_get_contacts_by_company
    \/ Call_add_company
    \/ Call_update_company
    \/ Call_delete_company
    \/ Call_get_companies
    \/ Call_get_company
    \/ Call_get_business_types
    \/ Call_add_invoice
    \/ Call_unimplemented
    \/ PullList
    \/ PullByCompany
    \/ Finish
    \/ Abandon

Spec == Init /\ [][Next]_vars

----------------------------------------------------------------------------
(* Properties *)

LastResponse == responses[Len(responses)]
Paginated    == {"get_contacts", "get_companies"}

\* the methods whose body is `return self._request(...)`
ReturnsPayload ==
    {"get_users", "get_departments", "get_tags", "get_segments", "get_contact",
     "get_company", "add_contact", "add_company", "add_invoice"}

\* the response is a JSON object with a 'reason' member
HasReason(r) == r.body.kind = "object" /\ r.body.hasReason

\* the call ended by raising exc with the reason of r as message and r attached
RaisedWith(exc, r) ==
    /\ outcome.kind = "raise"
    /\ outcome.exc = exc
    /\ outcome.message = r.body.reason
    /\ outcome.api_response = r

\* C1: a response with a JSON body that has a 'reason' raises Unauthorized on
\* 401, RateLimitExceeded on 505 and BadRequest on 400, each with the reason
\* as message and the raw response; a 200 with a JSON body returns the
\* decoded body unchanged.
C1_StatusMapping ==
    responses # <<>> =>
        /\ (HasReason(LastResponse) /\ LastResponse.status = 401)
              => RaisedWith("TeamleaderUnauthorizedError", LastResponse)
        /\ (HasReason(LastResponse) /\ LastResponse.status = 505)
              => RaisedWith("TeamleaderRateLimitExceededError", LastResponse)
        /\ (HasReason(LastResponse) /\ LastResponse.status = 400)
              => RaisedWith("TeamleaderBadRequestError", LastResponse)
        /\ (LastResponse.status = 200 /\ LastResponse.body.kind \in {"object", "array"}
               /\ method \in ReturnsPayload)
              => /\ outcome.kind = "return"
                 /\ outcome.value.type =
                        (IF LastResponse.body.kind = "object" THEN "dict" ELSE "list")
                 /\ outcome.value.items = LastResponse.body.items
                 /\ outcome.value.hasReason = LastResponse.body.hasReason
                 /\ outcome.value.reason = LastResponse.body.reason

C1_Witness ==
    /\ pc = "done"
    /\ responses # <<>>
    /\ LastResponse.status = 505
    /\ LastResponse.body.reason = "slow down"
    /\ outcome.exc = "TeamleaderRateLimitExceededError"
    /\ outcome.message = "slow down"

\* C2 (as claimed): every response whose status is none of 200, 400, 401, 505
\* raises UnknownAPIError, whatever its body is.
C2_UnknownStatus ==
    (responses # <<>> /\ LastResponse.status \notin {200, 400, 401, 505})
        => (outcome.kind = "raise" /\ outcome.exc = "TeamleaderUnknownAPIError")

\* the sizes of the pages received so far
PageSizesSeen == [i \in 1..Len(responses) |-> Len(responses[i].body.items)]

\* C3: get_contacts / get_companies fetch pages 0, 1, 2, ... with amount 100;
\* a further fetch follows the fetch of page k only if page k held exactly
\* 100 records, and the iteration does not end after a page of exactly 100
\* records; pages of 100, 100, 37 records give 237 records in 3 fetches and
\* pages of 100, 0 records give 100 records in 2 fetches.
C3_Pagination ==
    method \in Paginated =>
        /\ \A i \in 1..Len(requests) :
              /\ requests[i].data["pageno"] = <<"int", <<"0", "1", "2", "3", "4", "5">>[i]>>
              /\ requests[i].data["amount"] = <<"int", "100">>
        /\ \A i \in 1..(Len(requests) - 1) :
              responses[i].status = 200 /\ Len(responses[i].body.items) = 100
        /\ outcome.kind = "stop" =>
              /\ Len(LastResponse.body.items) # 100
              /\ PageSizesSeen = <<100, 100, 37>>
                    => (Len(gen.produced) = 237 /\ Len(requests) = 3)
              /\ PageSizesSeen = <<100, 0>>
                    => (Len(gen.produced) = 100 /\ Len(requests) = 2)

C3_Witness ==
    /\ method = "get_contacts"
    /\ outcome.kind = "stop"
    /\ PageSizesSeen = <<100, 100, 37>>
    /\ Len(gen.produced) = 237
    /\ Len(requests) = 3

\* the records of the pages received, page after page
RECURSIVE Concatenation(_)
Concatenation(resps) ==
    IF resps = <<>> THEN <<>>
    ELSE Head(resps).body.items \o Concatenation(Tail(resps))

\* C4: the records produced by a fully consumed get_contacts / get_companies
\* are the records of the fetched pages, in page order and in the order
\* received within each page.
C4_OrderPreserved ==
    (method \in Paginated /\ outcome.kind = "stop")
        => gen.produced = Concatenation(responses)

C4_Witness ==
    /\ method = "get_companies"
    /\ outcome.kind = "stop"
    /\ Len(responses) = 2
    /\ Len(gen.produced) = 137

\* C5: a call that ends with InvalidInput has issued no HTTP request.
C5_NoRequestOnInvalidInput ==
    (outcome.kind = "raise" /\ outcome.exc = "InvalidInputError")
        => (requests = <<>> /\ responses = <<>>)

C5_Witness ==
    /\ method \in {"get_segments", "add_invoice", "add_contact", "get_contacts"}
    /\ outcome.exc = "InvalidInputError"
    /\ requests = <<>>

\* the public methods that have a body
Implemented ==
    {"get_users", "get_departments", "get_tags", "get_segments", "add_contact",
     "update_contact", "delete_contact", "link_contact_company",
     "unlink_contact_company", "get_contacts", "get_contact",
     "get_contacts_by_company", "add_company", "update_company", "delete_company",
     "get_companies", "get_company", "get_business_types", "add_invoice"}

\* C6 (as claimed): a call of a public method ends either with a return after
\* a successful request or with one of the five classified errors.
C6_TwoOutcomes ==
    (pc = "done" /\ method \in Implemented) =>
        \/ /\ outcome.kind \in {"return", "stop"}
           /\ responses # <<>>
           /\ LastResponse.status = 200
        \/ /\ outcome.kind = "raise"
           /\ outcome.exc \in Classified

\* C7: the client keeps the group and the secret it was constructed with, and
\* every request carries them as api_group and api_secret.
C7_Credentials ==
    /\ group = api_group
    /\ secret = api_secret
    /\ \A i \in 1..Len(requests) :
          /\ {"api_group", "api_secret"} \subseteq DOMAIN requests[i].data
          /\ requests[i].data["api_group"] = api_group
          /\ requests[i].data["api_secret"] = api_secret

C7_Witness ==
    /\ method = "add_contact"
    /\ Len(requests) = 1
    /\ requests[1].data["api_group"] = <<"str", "g2">>
    /\ requests[1].data["api_secret"] = <<"str", "s1">>

\* C8: every send issues exactly one POST whatever the status of the
\* response, and a method that is not paginated and reaches the transport
\* issues exactly one request.
C8_OneAttempt ==
    /\ Len(requests) = Len(responses)
    /\ (pc = "done" /\ method \notin Paginated /\ responses # <<>>) => Len(requests) = 1

C8_Witness ==
    /\ pc = "done"
    /\ method = "get_departments"
    /\ responses # <<>>
    /\ LastResponse.status = 505
    /\ Len(requests) = 1

\* C9: _clean_input_to_dict returns a mapping without null values and without
\* booleans: the keys of null values are removed, a boolean becomes 0 or 1,
\* every other entry is kept unchanged.
C9_CleanInput ==
    method = "_clean_input_to_dict" =>
        /\ DOMAIN returned = {k \in DOMAIN args.data : args.data[k] # <<"NoneType", "None">>}
        /\ \A k \in DOMAIN returned :
              /\ returned[k] # <<"NoneType", "None">>
              /\ returned[k][1] # "bool"
              /\ args.data[k] = <<"bool", "True">> => returned[k] = <<"int", "1">>
              /\ args.data[k] = <<"bool", "False">> => returned[k] = <<"int", "0">>
              /\ args.data[k][1] # "bool" => returned[k] = args.data[k]

C9_Witness ==
    /\ method = "_clean_input_to_dict"
    /\ DOMAIN args.data = {"forename", "newsletter", "tags"}
    /\ args.data["tags"] = <<"NoneType", "None">>
    /\ args.data["newsletter"] = <<"bool", "False">>
    /\ DOMAIN returned = {"forename", "newsletter"}
    /\ returned["newsletter"] = <<"int", "0">>

\* the name of the sibling field of the i-th item
SiblingName(items, i) == "custom_field_" \o items[i][1][2]

\* what C10 says of a call of _convert_custom_fields on the mapping data
\* whose custom_fields hold items, with the mapping out as result
Flattened(data, items, out) ==
    /\ "custom_fields" \notin DOMAIN out
    /\ \A i \in 1..Len(items) :
          SiblingName(items, i) \in DOMAIN out /\ out[SiblingName(items, i)] = items[i][2]
    /\ Cardinality(DOMAIN out \ DOMAIN data) = Len(items)
    /\ \A k \in DOMAIN data \ {"custom_fields"} : k \in DOMAIN out /\ out[k] = data[k]
    /\ items = <<>> => DOMAIN out = DOMAIN data \ {"custom_fields"}

\* the keys of the items have distinct string forms, and no field of the
\* mapping has the name of a sibling field already
NoClash(data, items) ==
    /\ \A i, j \in 1..Len(items) : i # j => SiblingName(items, i) # SiblingName(items, j)
    /\ \A i \in 1..Len(items) : SiblingName(items, i) \notin DOMAIN data

\* C10 (as claimed): for every mapping with a custom_fields entry c,
\* _convert_custom_fields adds one field custom_field_<key> per entry of c
\* holding its value, removes custom_fields and leaves every other field
\* unchanged; for an empty c it adds nothing.
C10_Original ==
    method = "_convert_custom_fields" =>
        Flattened(args.data, args.items, returned.data)

\* C10 (amended): the same, for the mappings in which the keys of c have
\* pairwise distinct string forms and no field is already named
\* custom_field_<key> for a key of c.
C10_Flatten ==
    (method = "_convert_custom_fields" /\ NoClash(args.data, args.items)) =>
        Flattened(args.data, args.items, returned.data)

C10_Witness ==
    /\ method = "_convert_custom_fields"
    /\ NoClash(args.data, args.items)
    /\ Len(args.items) = 2
    /\ "key" \in DOMAIN args.data
    /\ DOMAIN returned.data = {"key", "custom_field_key", "custom_field_foo"}

\* the optional fields of an invoice line
OptionalLineKeys == {"product_id", "account", "subtitle"}

\* C11 (as claimed): in add_invoice a line missing one of description,
\* amount, vat, price fails with InvalidInput, and the payload of a request
\* holds the optional field <key>_<i> exactly when line i holds <key>.
C11_OptionalLineFields ==
    (method = "add_invoice" /\ pc = "done") =>
        LET lines == LinesOf(args.invoice_lines) IN
        /\ (\E i \in 1..Len(lines) : ~({"description", "amount", "vat", "price"} \subseteq DOMAIN lines[i]))
              => (outcome.kind = "raise" /\ outcome.exc = "InvalidInputError")
        /\ \A q \in 1..Len(requests) : \A i \in 1..Len(lines) : \A k \in OptionalLineKeys :
              (k \o "_" \o NumStr(i) \in DOMAIN requests[q].data) <=> (k \in DOMAIN lines[i])

\* the allowed values of the enumerated arguments
Genders      == {"M", "F", "U"}
PaymentTerms == {"0D", "7D", "10D", "15D", "21D", "30D", "45D", "60D", "90D", "30DEM",
                 "60DEM", "90DEM"}
ObjectTypes  == {"crm_companies", "crm_contacts", "crm_todos", "crm_callbacks",
                 "crm_meetings", "inv_invoices", "inv_creditnotes", "pro_projects",
                 "sale_sales", "ticket_tickets"}

\* the value v is not null and not one of the strings of allowed
Rejected(v, allowed) == v # <<"NoneType", "None">> /\ ~(v[1] = "str" /\ v[2] \in allowed)

\* the call ended with the InvalidInput of message msg
InvalidWith(msg) ==
    outcome.kind = "raise" /\ outcome.exc = "InvalidInputError" /\ outcome.message = msg

\* the check of the argument arg of the methods ms against allowed fails with
\* InvalidInput when the value is rejected, and only then
EnumCheck(ms, arg, allowed, msg) ==
    (pc = "done" /\ method \in ms) =>
        /\ Rejected(args[arg], allowed)
              => (outcome.kind = "raise" /\ outcome.exc = "InvalidInputError")
        /\ InvalidWith(msg) => Rejected(args[arg], allowed)

\* the checks of gender and payment_term
GenderAndTermChecks ==
    /\ EnumCheck({"add_contact", "update_contact"}, "gender", Genders,
                 "Invalid contents of argument gender.")
    /\ (pc = "done" /\ method \in {"add_contact", "update_contact"})
          => (InvalidWith("Invalid contents of argument gender.")
                 <=> Rejected(args["gender"], Genders))
    /\ EnumCheck({"add_company", "update_company", "add_invoice"}, "payment_term",
                 PaymentTerms, "Invalid contents of argument payment_term.")

\* C12 (as claimed): every check of an enumerated argument (gender,
\* payment_term, object_type) fails with InvalidInput if and only if the value
\* is not null and not in the allowed set; a null value passes.
C12_Original ==
    /\ GenderAndTermChecks
    /\ (pc = "done" /\ method = "get_segments")
          => (InvalidWith("Invalid contents of object_type.")
                 <=> Rejected(args["object_type"], ObjectTypes))

\* C12 (amended): the checks of gender and payment_term fail with InvalidInput
\* if and only if the value is not null and not in the allowed set; the check
\* of object_type in get_segments fails if and only if the value is not in the
\* allowed set, a null value included.
C12_EnumChecks ==
    /\ GenderAndTermChecks
    /\ (pc = "done" /\ method = "get_segments")
          => (InvalidWith("Invalid contents of object_type.")
                 <=> ~(args["object_type"][1] = "str" /\ args["object_type"][2] \in ObjectTypes))

C12_Witness ==
    /\ pc = "done"
    /\ method = "add_company"
    /\ args["payment_term"] = <<"str", "31D">>
    /\ InvalidWith("Invalid contents of argument payment_term.")

\* C13: add_invoice called with both contact_id and company_id, or with
\* neither, raises InvalidInput; every request it sends names one target in
\* contact_or_company, holds the one id given in contact_or_company_id, and
\* has no contact_id and no company_id field.
C13_OneTarget ==
    method = "add_invoice" =>
        LET contact == args["contact_id"] # <<"NoneType", "None">>
            company == args["company_id"] # <<"NoneType", "None">>
        IN
        /\ (pc = "done" /\ contact = company)
              => (outcome.kind = "raise" /\ outcome.exc = "InvalidInputError" /\ requests = <<>>)
        /\ \A q \in 1..Len(requests) :
              LET data == requests[q].data IN
              /\ contact # company
              /\ {"contact_or_company", "contact_or_company_id"} \subseteq DOMAIN data
              /\ "contact_id" \notin DOMAIN data
              /\ "company_id" \notin DOMAIN data
              /\ contact => /\ data["contact_or_company"] = <<"str", "contact">>
                            /\ data["contact_or_company_id"] = args["contact_id"]
              /\ company => /\ data["contact_or_company"] = <<"str", "company">>
                            /\ data["contact_or_company_id"] = args["company_id"]

C13_Witness ==
    /\ method = "add_invoice"
    /\ Len(requests) = 1
    /\ args["company_id"] = <<"int", "2">>
    /\ requests[1].data["contact_or_company"] = <<"str", "company">>
    /\ requests[1].data["contact_or_company_id"] = <<"int", "2">>

\* C14 (as claimed): _validate_type(arg, t) returns arg when arg is a value of
\* type t, a new empty t() when arg is None, and raises InvalidInput when arg
\* is a value of another type.
C14_ValidateType ==
    method = "_validate_type" =>
        LET arg == args["arg"]
            t   == args["t"][2]
        IN
        /\ arg[1] = t => (~returned.raised /\ returned.value = arg)
        /\ arg = <<"NoneType", "None">>
              => (~returned.raised /\ returned.value = <<t, IF t = "list" THEN "[]" ELSE "{}">>)
        /\ arg[1] \notin {t, "NoneType"} => returned.raised

\* a step of an iteration of get_contacts / get_companies that issues a request
Fetches ==
    /\ method \in Paginated
    /\ method' = method
    /\ pc = "iterating"
    /\ requests' # requests

\* C15: pagination is lazy: the call of get_contacts / get_companies issues
\* no request, the first pull fetches page 0, and every later fetch is issued
\* by a pull made when the consumer holds every record of the pages fetched
\* so far; a step issues one fetch at most, and only a pull issues any.
C15_Lazy ==
    /\ []((method \in Paginated /\ ~gen.started) => requests = <<>>)
    /\ [][Fetches =>
            /\ Len(gen.produced) = Len(Concatenation(responses))
            /\ Len(requests') = Len(requests) + 1
            /\ \/ Len(gen'.produced) = Len(gen.produced) + 1
               \/ outcome'.kind \in {"stop", "raise"}]_vars

C15_Witness ==
    /\ method = "get_contacts"
    /\ pc = "iterating"
    /\ Len(requests) = 2
    /\ Len(gen.produced) = 101

\* C16 (as claimed): the payload of every request has been cleaned: it holds
\* no null-valued field and no boolean value.
C16_CleanedPayloads ==
    \A q \in 1..Len(requests) : \A k \in DOMAIN requests[q].data :
        /\ requests[q].data[k] # <<"NoneType", "None">>
        /\ requests[q].data[k][1] # "bool"

\* C17 (as claimed): every payload is a flat mapping of scalar values: it
\* holds no list, no dict and no object such as the client itself, and a
\* payload of add_contact, update_contact, add_company, update_company or
\* add_invoice has no custom_fields, tags or invoice_lines field.
C17_FlatPayloads ==
    \A q \in 1..Len(requests) :
        LET data == requests[q].data IN
        /\ \A k \in DOMAIN data : data[k][1] \in {"str", "int", "float", "bool", "NoneType"}
        /\ method \in {"add_contact", "update_contact", "add_company", "update_company",
                       "add_invoice"}
              => DOMAIN data \cap {"custom_fields", "tags", "invoice_lines"} = {}

\* the iteration of get_contacts / get_companies ended with a classified
\* error of the API
FetchFailed ==
    /\ method \in Paginated
    /\ outcome.kind = "raise"
    /\ outcome.exc \in Classified \ {"InvalidInputError"}

\* C18: when the fetch of page k of get_contacts / get_companies raises a
\* classified API error, the consumer has received the records of pages
\* 0..k-1 in order and nothing else, the error of that response is what the
\* pull raises, and pages 0..k have been asked for once each and no other.
C18_ErrorPropagation ==
    FetchFailed =>
        LET n == Len(responses) IN
        /\ pc = "done"
        /\ n >= 1
        /\ Len(requests) = n
        /\ n = gen.pageno + 1
        /\ \A i \in 1..n : requests[i].data["pageno"] = <<"int", NumStr(i - 1)>>
        /\ \A i \in 1..(n - 1) : responses[i].status = 200
        /\ gen.produced = Concatenation(SubSeq(responses, 1, n - 1))
        /\ outcome.api_response = responses[n]
        /\ outcome.message = responses[n].body.reason

C18_Witness ==
    /\ FetchFailed
    /\ method = "get_companies"
    /\ outcome.exc = "TeamleaderRateLimitExceededError"
    /\ Len(requests) = 2
    /\ Len(gen.produced) = 100

====
